---- MODULE Spec2Model ----
(***************************************************************************)
(* Model of pi_pointer (src/src/lib.rs): the position-independent pointer  *)
(* PIPtr, its WrappedPtr operations, and the atomic slot                   *)
(* AtomicWrappedPtr<PIPtr>.                                                *)
(*                                                                         *)
(* A usize is 64 bits wide.  TLC's integers are 32 bits wide, so a word is *)
(* kept as four 16-bit limbs, most significant first:                      *)
(*   0x8000_0000_8000_0000  is  <<32768, 0, 32768, 0>>.                    *)
(* Addition and subtraction are carried limb by limb, so they have exactly *)
(* the width, the wrap-around and the overflow condition of usize.         *)
(***************************************************************************)
EXTENDS Integers, Sequences, FiniteSets, TLC

VARIABLES
    scene,      \* which object the clients use: "pointer" (a PIPtr), "slot" (an
                \* AtomicWrappedPtr<PIPtr>), "race" (a slot under concurrent CAS)
    checks,     \* build profile: TRUE when `+`/`-` are compiled with overflow checks
    base,       \* base[p]: what get_data_base() returns in address space p
    pi,         \* the word stored in the PIPtr object (self.0)
    origin,     \* how pi was last constructed or assigned (history)
    depth,      \* how many times in a row a ptr() result was fed to from_ptr
    slot,       \* AtomicWrappedPtr::inner, the atomic word
    wrote,      \* the last construction of, or write to, the slot (history)
    last,       \* the last completed call on the PIPtr or on the slot (history)
    expect,     \* race: the word every racing compare_exchange expects
    plan,       \* race: plan[p] is the new word of p's compare_exchange
    pc,         \* race: pc[p] is "ready" before p's call, "done" after it
    ret         \* race: ret[p] is what p's compare_exchange returned

vars == <<scene, checks, base, pi, origin, depth, slot, wrote, last,
          expect, plan, pc, ret>>

(***************************************************************************)
(* Bounds                                                                  *)
(***************************************************************************)
NumProcs == 2       \* address spaces / processes sharing the region
MaxIdx   == 1       \* small offsets are 0x40 * k for k in 0..MaxIdx
MaxChain == 1       \* results fed back as arguments at most this many times in a row

Procs == 1..NumProcs

(***************************************************************************)
(* usize arithmetic on four 16-bit limbs                                   *)
(***************************************************************************)
LimbBase == 2^16

W0 == <<0, 0, 0, 0>>

\* usize + usize: the wrapped sum and whether it overflowed 64 bits
WAdd(x, y) ==
    LET s4 == x[4] + y[4]
        s3 == x[3] + y[3] + (s4 \div LimbBase)
        s2 == x[2] + y[2] + (s3 \div LimbBase)
        s1 == x[1] + y[1] + (s2 \div LimbBase)
    IN  [val |-> <<s1 % LimbBase, s2 % LimbBase, s3 % LimbBase, s4 % LimbBase>>,
         overflow |-> s1 >= LimbBase]

\* usize - usize: the wrapped difference and whether it went below zero
WSub(x, y) ==
    LET d4 == x[4] - y[4]
        d3 == x[3] - y[3] - (IF d4 < 0 THEN 1 ELSE 0)
        d2 == x[2] - y[2] - (IF d3 < 0 THEN 1 ELSE 0)
        d1 == x[1] - y[1] - (IF d2 < 0 THEN 1 ELSE 0)
    IN  [val |-> <<d1 % LimbBase, d2 % LimbBase, d3 % LimbBase, d4 % LimbBase>>,
         overflow |-> d1 < 0]

\* pub const NULL_PTR: usize = 0x8000_0000_8000_0000
NULL_PTR == <<32768, 0, 32768, 0>>

(***************************************************************************)
(* Input values                                                            *)
(***************************************************************************)
\* bases the provider may return: 0x1000, 0x5000
Bases == {<<0, 0, 0, 4096>>, <<0, 0, 0, 20480>>}

\* small offsets inside the region: 0, 0x40, ...
SmallOffsets == {<<0, 0, 0, 64 * k>> : k \in 0..MaxIdx}

\* 0xFFFF_FFFF_FFFF_FFC0, an offset that any base carries past the top
TopWord == <<65535, 65535, 65535, 65472>>

\* stored words handed to from_value and set: offsets of the region, the
\* sentinel, the offsets one base below the sentinel, and the top word
StoredWords ==
    SmallOffsets \cup {NULL_PTR, TopWord} \cup {WSub(NULL_PTR, b).val : b \in Bases}

\* addresses handed to from_ptr: the region's addresses under each base, the
\* sentinel, the addresses one base above the sentinel, an address below
\* every base
Addresses ==
    {WAdd(b, o).val : b \in Bases, o \in SmallOffsets}
    \cup {NULL_PTR, <<0, 0, 0, 64>>}
    \cup {WAdd(NULL_PTR, b).val : b \in Bases}

\* stored words handed to the slot's from_value, store and compare_exchange
SlotWords == SmallOffsets \cup {NULL_PTR, TopWord}

\* words a compare_exchange expects besides the slot's current word
ExpectWords == {W0, NULL_PTR}

(***************************************************************************)
(* GetDataBase::get_data_base, as called from address space p              *)
(***************************************************************************)
\* mutant: the base is looked up once, in the first address space, and reused
get_data_base_cached(p) == base[1]

get_data_base(p) == base[p]

(***************************************************************************)
(* impl WrappedPtr for PIPtr.  Each operation yields                       *)
(*   val     the returned word (or the word stored in the new object),     *)
(*   panic   TRUE when the call panics instead of returning,               *)
(*   queries how many times it called get_data_base.                       *)
(* `b` is what get_data_base() returns when the call queries it, `chk` is  *)
(* whether the build checks arithmetic overflow.                           *)
(***************************************************************************)
PIPtr_value(self) == [val |-> self, panic |-> FALSE, queries |-> 0]

\* mutant: the transformation written in ptr's doc comment, self.0 - get_data_base()
PIPtr_ptr_sub(self, b, chk) ==
    IF self = NULL_PTR
    THEN [val |-> NULL_PTR, panic |-> FALSE, queries |-> 0]
    ELSE LET s == WSub(self, b)
         IN  [val |-> s.val, panic |-> chk /\ s.overflow, queries |-> 1]

\* mutant: ptr without the sentinel test, the base is added to every word
PIPtr_ptr_nocheck(self, b, chk) ==
    LET s == WAdd(self, b)
    IN  [val |-> s.val, panic |-> chk /\ s.overflow, queries |-> 1]

PIPtr_ptr(self, b, chk) ==
    IF self = NULL_PTR
    THEN [val |-> NULL_PTR, panic |-> FALSE, queries |-> 0]
    ELSE LET s == WAdd(self, b)
         IN  [val |-> s.val, panic |-> chk /\ s.overflow, queries |-> 1]

PIPtr_from_value(value) == [val |-> value, panic |-> FALSE, queries |-> 0]

\* mutant: from_ptr stores the address untranslated
PIPtr_from_ptr_verbatim(ptr, b, chk) ==
    [val |-> ptr, panic |-> FALSE, queries |-> 0]

\* mutant: from_ptr applies ptr's transformation instead of its inverse
PIPtr_from_ptr_add(ptr, b, chk) ==
    IF ptr = NULL_PTR
    THEN [val |-> NULL_PTR, panic |-> FALSE, queries |-> 0]
    ELSE LET d == WAdd(ptr, b)
         IN  [val |-> d.val, panic |-> chk /\ d.overflow, queries |-> 1]

PIPtr_from_ptr(ptr, b, chk) ==
    IF ptr = NULL_PTR
    THEN [val |-> NULL_PTR, panic |-> FALSE, queries |-> 0]
    ELSE LET d == WSub(ptr, b)
         IN  [val |-> d.val, panic |-> chk /\ d.overflow, queries |-> 1]

PIPtr_set(self, value) == [val |-> value, panic |-> FALSE, queries |-> 0]

\* mutant: the null test of an ordinary pointer, against zero
PIPtr_is_null_zero(self) == self = W0

PIPtr_is_null(self) == self = NULL_PTR

\* WrappedPtr::null, the default method
PIPtr_null == PIPtr_from_value(NULL_PTR)


(***************************************************************************)
(* impl AtomicWrappedPtr<PIPtr>.  `inner` is the atomic word.  Every       *)
(* operation is one atomic access to it (Acquire loads, Release store,     *)
(* AcqRel compare_exchange): the accesses to one atomic word are totally   *)
(* ordered, so each operation is one step.                                 *)
(***************************************************************************)
Atomic_load_value(inner) == [val |-> inner, panic |-> FALSE, queries |-> 0]

\* T::from_value(self.inner.load(Acquire)).ptr()
Atomic_load_ptr(inner, b, chk) == PIPtr_ptr(PIPtr_from_value(inner).val, b, chk)

\* T::from_value(self.inner.load(Acquire))
Atomic_load(inner) == PIPtr_from_value(inner)

\* AtomicPtr::new(value)
Atomic_from_value(value) == [val |-> value, panic |-> FALSE, queries |-> 0]

\* AtomicPtr::new(T::from_ptr(ptr).value())
Atomic_from_ptr(ptr, b, chk) ==
    LET t == PIPtr_from_ptr(ptr, b, chk)
    IN  [val |-> PIPtr_value(t.val).val, panic |-> t.panic,
         queries |-> t.queries + PIPtr_value(t.val).queries]

\* AtomicPtr::new(NULL_PTR as *mut ())
Atomic_null == [val |-> NULL_PTR, panic |-> FALSE, queries |-> 0]

\* mutant: the store is lost
Atomic_store_lost(inner, value) == inner

\* self.inner.store(value, Release): the word the slot holds afterwards
Atomic_store(inner, value) == value

\* mutant: the new word is written whether or not the comparison succeeded
Atomic_compare_exchange_clobber(inner, current, new) ==
    IF inner = current
    THEN [ok |-> TRUE, val |-> inner, mem |-> new]
    ELSE [ok |-> FALSE, val |-> inner, mem |-> new]

\* mutant: a plain read-modify-write that reports the caller's own expectation
Atomic_compare_exchange_blind(inner, current, new) ==
    [ok |-> TRUE, val |-> current, mem |-> new]

\* self.inner.compare_exchange(current, new, AcqRel, Acquire):
\* Ok(previous) and the slot holds new, or Err(actual) and the slot is unchanged
Atomic_compare_exchange(inner, current, new) ==
    IF inner = current
    THEN [ok |-> TRUE, val |-> inner, mem |-> new]
    ELSE [ok |-> FALSE, val |-> inner, mem |-> inner]

(***************************************************************************)
(* History records                                                         *)
(***************************************************************************)
\* a completed call: op, its argument (the receiver's word for a method
\* without one), a second argument, the provider's value in the caller's
\* address space (for the translating operations), the slot's word at the
\* instant of a compare_exchange, and the outcome
Call(op, arg, arg2, b, before, r, flag) ==
    [op |-> op, by |-> 0, arg |-> arg, arg2 |-> arg2, base |-> b, before |-> before,
     val |-> r.val, flag |-> flag, panic |-> r.panic, queries |-> r.queries]

\* a completed call on the slot, with the process that made it
SlotCall(p, op, arg, arg2, b, before, r, flag) ==
    [Call(op, arg, arg2, b, before, r, flag) EXCEPT !.by = p]

NoCall == Call("none", W0, W0, W0, W0, [val |-> W0, panic |-> FALSE, queries |-> 0], FALSE)

\* how the PIPtr's word came about: constructor, argument, the base it was
\* translated under; fed: the argument was the result of ptr() on the offset
\* `of` under base `ofbase`
Origin(kind, arg, b, fed, of, ofbase) ==
    [kind |-> kind, arg |-> arg, base |-> b, fed |-> fed, of |-> of, ofbase |-> ofbase]

\* the last write to the slot: by which process (0: the initial slot) and
\* operation, with which argument, under which base (from_ptr), and the word
\* that was handed to the atomic
Wrote(p, kind, arg, b, word) ==
    [by |-> p, kind |-> kind, arg |-> arg, base |-> b, word |-> word]

NoRet == [done |-> FALSE, ok |-> FALSE, val |-> W0]

PointerVars == <<pi, origin, depth>>
SlotVars == <<slot, wrote>>
RaceVars == <<expect, plan, pc, ret>>

NoPointer == /\ pi = PIPtr_null.val
             /\ origin = Origin("null", NULL_PTR, W0, FALSE, W0, W0)
             /\ depth = 0

NoRace == /\ expect = W0
          /\ plan = [p \in Procs |-> W0]
          /\ pc = [p \in Procs |-> "idle"]
          /\ ret = [p \in Procs |-> NoRet]

(***************************************************************************)
(* Scene "pointer": one PIPtr in the shared region, used from every        *)
(* address space, one call at a time                                       *)
(***************************************************************************)
InitPointer ==
    /\ scene = "pointer"
    /\ checks \in BOOLEAN
    /\ base \in [Procs -> Bases]
    /\ NoPointer
    /\ slot = Atomic_null.val
    /\ wrote = Wrote(0, "null", NULL_PTR, W0, NULL_PTR)
    /\ last = NoCall
    /\ NoRace

\* the region is mapped somewhere else in address space p: the provider's
\* answer there changes
Remap(p, b) ==
    /\ scene \in {"pointer", "slot"}
    /\ b # base[p]
    /\ base' = [base EXCEPT ![p] = b]
    /\ UNCHANGED <<scene, checks, PointerVars, SlotVars, last, RaceVars>>

Value ==
    /\ scene = "pointer"
    /\ last' = Call("value", pi, W0, W0, W0, PIPtr_value(pi), FALSE)
    /\ UNCHANGED <<scene, checks, base, PointerVars, SlotVars, RaceVars>>

Ptr(p) ==
    /\ scene = "pointer"
    /\ last' = Call("ptr", pi, W0, base[p], W0,
                    PIPtr_ptr(pi, get_data_base(p), checks), FALSE)
    /\ UNCHANGED <<scene, checks, base, PointerVars, SlotVars, RaceVars>>

IsNull ==
    /\ scene = "pointer"
    /\ last' = Call("is_null", pi, W0, W0, W0, PIPtr_value(pi), PIPtr_is_null(pi))
    /\ UNCHANGED <<scene, checks, base, PointerVars, SlotVars, RaceVars>>

FromValue(v) ==
    /\ scene = "pointer"
    /\ LET r == PIPtr_from_value(v)
       IN  /\ pi' = r.val
           /\ origin' = Origin("from_value", v, W0, FALSE, W0, W0)
           /\ last' = Call("from_value", v, W0, W0, W0, r, FALSE)
    /\ depth' = 0
    /\ UNCHANGED <<scene, checks, base, SlotVars, RaceVars>>

Null ==
    /\ scene = "pointer"
    /\ LET r == PIPtr_null
       IN  /\ pi' = r.val
           /\ origin' = Origin("null", NULL_PTR, W0, FALSE, W0, W0)
           /\ last' = Call("null", NULL_PTR, W0, W0, W0, r, FALSE)
    /\ depth' = 0
    /\ UNCHANGED <<scene, checks, base, SlotVars, RaceVars>>

Set(v) ==
    /\ scene = "pointer"
    /\ LET r == PIPtr_set(pi, v)
       IN  /\ pi' = r.val
           /\ origin' = Origin("set", v, W0, FALSE, W0, W0)
           /\ last' = Call("set", v, W0, W0, W0, r, FALSE)
    /\ depth' = 0
    /\ UNCHANGED <<scene, checks, base, SlotVars, RaceVars>>

\* PIPtr::from_ptr(a); a call that panics constructs nothing
FromPtr(p, a) ==
    /\ scene = "pointer"
    /\ LET r == PIPtr_from_ptr(a, get_data_base(p), checks)
       IN  /\ pi' = IF r.panic THEN pi ELSE r.val
           /\ origin' = IF r.panic THEN origin
                        ELSE Origin("from_ptr", a, base[p], FALSE, W0, W0)
           /\ last' = Call("from_ptr", a, W0, base[p], W0, r, FALSE)
           /\ depth' = IF r.panic THEN depth ELSE 0
    /\ UNCHANGED <<scene, checks, base, SlotVars, RaceVars>>

\* PIPtr::from_ptr(q.ptr()): from_ptr on the address the last ptr() returned
FromPtrOfPtr(p) ==
    /\ scene = "pointer"
    /\ last.op = "ptr"
    /\ ~last.panic
    /\ depth < MaxChain
    /\ LET r == PIPtr_from_ptr(last.val, get_data_base(p), checks)
       IN  /\ pi' = IF r.panic THEN pi ELSE r.val
           /\ origin' = IF r.panic THEN origin
                        ELSE Origin("from_ptr", last.val, base[p], TRUE,
                                    last.arg, last.base)
           /\ last' = Call("from_ptr", last.val, W0, base[p], W0, r, TRUE)
    /\ depth' = depth + 1
    /\ UNCHANGED <<scene, checks, base, SlotVars, RaceVars>>

\* value, is_null, from_value, null and set never look at the address space
\* they run in; ptr and from_ptr run in the address space of a process p
NextPointer ==
    \/ Value
    \/ IsNull
    \/ Null
    \/ \E v \in StoredWords : FromValue(v)
    \/ \E v \in StoredWords : Set(v)
    \/ \E p \in Procs :
        \/ Ptr(p)
        \/ \E a \in Addresses : FromPtr(p, a)
        \/ FromPtrOfPtr(p)

(***************************************************************************)
(* Scene "slot": one AtomicWrappedPtr<PIPtr> in the shared region, used    *)
(* concurrently from every address space                                   *)
(***************************************************************************)
InitSlot ==
    /\ scene = "slot"
    /\ checks \in BOOLEAN
    /\ base \in [Procs -> Bases]
    /\ NoPointer
    /\ slot = Atomic_null.val
    /\ wrote = Wrote(0, "null", NULL_PTR, W0, NULL_PTR)
    /\ last = NoCall
    /\ NoRace

NewNull(p) ==
    /\ scene = "slot"
    /\ LET r == Atomic_null
       IN  /\ slot' = r.val
           /\ wrote' = Wrote(p, "null", NULL_PTR, W0, NULL_PTR)
           /\ last' = SlotCall(p, "new_null", NULL_PTR, W0, W0, W0, r, FALSE)
    /\ UNCHANGED <<scene, checks, base, PointerVars, RaceVars>>

NewFromValue(p, v) ==
    /\ scene = "slot"
    /\ LET r == Atomic_from_value(v)
       IN  /\ slot' = r.val
           /\ wrote' = Wrote(p, "from_value", v, W0, v)
           /\ last' = SlotCall(p, "new_from_value", v, W0, W0, W0, r, FALSE)
    /\ UNCHANGED <<scene, checks, base, PointerVars, RaceVars>>

\* AtomicWrappedPtr::from_ptr(a); a call that panics constructs nothing
NewFromPtr(p, a) ==
    /\ scene = "slot"
    /\ LET r == Atomic_from_ptr(a, get_data_base(p), checks)
       IN  /\ slot' = IF r.panic THEN slot ELSE r.val
           /\ wrote' = IF r.panic THEN wrote ELSE Wrote(p, "from_ptr", a, base[p], r.val)
           /\ last' = SlotCall(p, "new_from_ptr", a, W0, base[p], W0, r, FALSE)
    /\ UNCHANGED <<scene, checks, base, PointerVars, RaceVars>>

LoadValue(p) ==
    /\ scene = "slot"
    /\ last' = SlotCall(p, "load_value", slot, W0, W0, W0, Atomic_load_value(slot), FALSE)
    /\ UNCHANGED <<scene, checks, base, PointerVars, SlotVars, RaceVars>>

LoadPtr(p) ==
    /\ scene = "slot"
    /\ last' = SlotCall(p, "load_ptr", slot, W0, base[p], W0,
                    Atomic_load_ptr(slot, get_data_base(p), checks), FALSE)
    /\ UNCHANGED <<scene, checks, base, PointerVars, SlotVars, RaceVars>>

\* load(), observed through value() of the PIPtr it returns
Load(p) ==
    /\ scene = "slot"
    /\ LET t == Atomic_load(slot)
       IN  last' = SlotCall(p, "load", slot, W0, W0, W0,
                        [val |-> PIPtr_value(t.val).val, panic |-> t.panic,
                         queries |-> t.queries + PIPtr_value(t.val).queries], FALSE)
    /\ UNCHANGED <<scene, checks, base, PointerVars, SlotVars, RaceVars>>

Store(p, v) ==
    /\ scene = "slot"
    /\ slot' = Atomic_store(slot, v)
    /\ wrote' = Wrote(p, "store", v, W0, v)
    /\ last' = SlotCall(p, "store", v, W0, W0, W0,
                    [val |-> W0, panic |-> FALSE, queries |-> 0], FALSE)
    /\ UNCHANGED <<scene, checks, base, PointerVars, RaceVars>>

CompareExchange(p, current, new) ==
    /\ scene = "slot"
    /\ LET r == Atomic_compare_exchange(slot, current, new)
       IN  /\ slot' = r.mem
           /\ wrote' = IF r.ok THEN Wrote(p, "compare_exchange", new, W0, new) ELSE wrote
           /\ last' = SlotCall(p, "compare_exchange", current, new, W0, slot,
                           [val |-> r.val, panic |-> FALSE, queries |-> 0], r.ok)
    /\ UNCHANGED <<scene, checks, base, PointerVars, RaceVars>>

NextSlot ==
    \E p \in Procs :
        \/ NewNull(p)
        \/ \E v \in SlotWords : NewFromValue(p, v)
        \/ \E a \in Addresses : NewFromPtr(p, a)
        \/ LoadValue(p)
        \/ LoadPtr(p)
        \/ Load(p)
        \/ \E v \in SlotWords : Store(p, v)
        \/ \E c \in ExpectWords \cup {slot}, n \in SlotWords : CompareExchange(p, c, n)

(***************************************************************************)
(* Scene "race": the slot holds `expect`; every process issues one         *)
(* compare_exchange(expect, plan[p]) with plan[p] # expect, in any order,  *)
(* and nothing else writes the slot                                        *)
(***************************************************************************)
InitRace ==
    /\ scene = "race"
    /\ checks \in BOOLEAN
    /\ base \in [Procs -> Bases]
    /\ NoPointer
    /\ expect \in SlotWords
    /\ slot = Atomic_from_value(expect).val
    /\ wrote = Wrote(0, "from_value", expect, W0, expect)
    /\ last = NoCall
    /\ plan \in [Procs -> SlotWords \ {expect}]
    /\ pc = [p \in Procs |-> "ready"]
    /\ ret = [p \in Procs |-> NoRet]

RaceCompareExchange(p) ==
    /\ scene = "race"
    /\ pc[p] = "ready"
    /\ LET r == Atomic_compare_exchange(slot, expect, plan[p])
       IN  /\ slot' = r.mem
           /\ wrote' = IF r.ok THEN Wrote(p, "compare_exchange", plan[p], W0, plan[p])
                       ELSE wrote
           /\ ret' = [ret EXCEPT ![p] = [done |-> TRUE, ok |-> r.ok, val |-> r.val]]
    /\ pc' = [pc EXCEPT ![p] = "done"]
    /\ UNCHANGED <<scene, checks, base, PointerVars, last, expect, plan>>

NextRace == \E p \in Procs : RaceCompareExchange(p)

(***************************************************************************)
(* The specification                                                       *)
(***************************************************************************)
Init == InitPointer \/ InitSlot \/ InitRace

Next ==
    \/ \E p \in Procs, b \in Bases : Remap(p, b)
    \/ NextPointer
    \/ NextSlot
    \/ NextRace

Spec == Init /\ [][Next]_vars

(***************************************************************************)
(* Properties                                                              *)
(***************************************************************************)
\* the offset from_ptr computes for address a under base b, in usize arithmetic
OffsetOf(a, b) == WSub(a, b).val

C3_NullPreservation ==
    /\ (scene = "pointer" /\ last.op = "from_ptr" /\ last.arg = NULL_PTR) =>
            (~last.panic /\ last.val = NULL_PTR /\ pi = NULL_PTR)
    /\ (scene = "pointer" /\ last.op = "ptr" /\ last.arg = NULL_PTR) =>
            (~last.panic /\ last.val = NULL_PTR)
    /\ (scene = "slot" /\ wrote.kind = "null" /\ last.op \in {"load_value", "load_ptr"}) =>
            (~last.panic /\ last.val = NULL_PTR)

\* null() slot read with load_ptr under base 0x1000: the sentinel, not sentinel + 0x1000
C3_Witness ==
    /\ scene = "slot"
    /\ wrote.kind = "null"
    /\ last.op = "load_ptr"
    /\ last.base = <<0, 0, 0, 4096>>
    /\ last.val = NULL_PTR

\* C4: a compare_exchange(expected, new) on the slot, whatever the other
\* processes did before it, returns the word the slot held at that instant;
\* it is Ok and the slot holds new iff that word was expected, otherwise Err
\* and the slot is unchanged; no word is translated and no base is queried.
C4_CasSemantics ==
    (scene = "slot" /\ last.op = "compare_exchange") =>
        /\ last.flag <=> (last.before = last.arg)
        /\ last.val = last.before
        /\ last.flag => slot = last.arg2
        /\ ~last.flag => slot = last.before
        /\ last.queries = 0

\* a compare_exchange that failed because another process stored in between
C4_Witness ==
    /\ scene = "slot"
    /\ last.op = "compare_exchange"
    /\ ~last.flag
    /\ wrote.kind = "store"
    /\ wrote.by # last.by
    /\ last.val = wrote.arg
    /\ last.arg2 # slot

\* C5: after store(w), with no store, construction or successful
\* compare_exchange since, load_value() and load().value() return w to every
\* process.
C5_StoreThenLoad ==
    (scene = "slot" /\ wrote.kind = "store" /\ last.op \in {"load_value", "load"}) =>
        last.val = wrote.arg

\* a word stored by one process and loaded by another
C5_Witness ==
    /\ scene = "slot"
    /\ wrote.kind = "store"
    /\ wrote.arg = <<0, 0, 0, 64>>
    /\ last.op = "load_value"
    /\ last.by # wrote.by
    /\ last.val = <<0, 0, 0, 64>>

\* C6: is_null() is true iff value() is the sentinel, whatever the bases are
\* and whatever ptr() returns; null() and from_value(NULL_PTR) are observed
\* alike by value(), ptr() and is_null(): the sentinel, the sentinel, true.
C6_IsNullAgreement ==
    scene = "pointer" =>
        /\ last.op = "is_null" => (last.flag <=> last.val = NULL_PTR)
        /\ (origin.kind = "null" \/ (origin.kind = "from_value" /\ origin.arg = NULL_PTR)) =>
                /\ pi = NULL_PTR
                /\ last.op \in {"value", "ptr"} => last.val = NULL_PTR
                /\ last.op = "is_null" => last.flag

\* an offset whose translated address is the sentinel bit pattern is not null
C6_Witness ==
    /\ scene = "pointer"
    /\ last.op = "is_null"
    /\ ~last.flag
    /\ \E p \in Procs : ~PIPtr_ptr(pi, base[p], checks).panic
                           /\ PIPtr_ptr(pi, base[p], checks).val = NULL_PTR

\* C7 as stated: every PIPtr::ptr and PIPtr::from_ptr call returns; none fails
\* on overflow of offset + base or underflow of addr - base.
C7_Totality ==
    (scene = "pointer" /\ last.op \in {"ptr", "from_ptr"}) => ~last.panic

Translating == {"ptr", "from_ptr", "load_ptr", "new_from_ptr"}

\* C9: a translating call queries the provider once when its input is not the
\* sentinel and uses the base of the caller's address space at that moment;
\* every other call, and a translating call on the sentinel, never queries
\* it; from_value(v) and set(v) leave the stored word equal to v.
C9_QueryDiscipline ==
    /\ last.op \in Translating =>
            last.queries = IF last.arg = NULL_PTR THEN 0 ELSE 1
    /\ last.op \notin Translating => last.queries = 0
    /\ (last.op \in {"ptr", "load_ptr"} /\ last.arg # NULL_PTR /\ ~last.panic) =>
            last.val = WAdd(last.arg, last.base).val
    /\ (last.op \in {"from_ptr", "new_from_ptr"} /\ last.arg # NULL_PTR /\ ~last.panic) =>
            last.val = WSub(last.arg, last.base).val
    /\ (scene = "pointer" /\ last.op \in {"from_value", "set"}) => pi = last.arg

\* an offset made by from_ptr under one base, translated by ptr() under another
C9_Witness ==
    /\ scene = "pointer"
    /\ origin.kind = "from_ptr"
    /\ origin.arg = <<0, 0, 0, 4160>>
    /\ origin.base = <<0, 0, 0, 4096>>
    /\ last.op = "ptr"
    /\ last.queries = 1
    /\ last.base = <<0, 0, 0, 20480>>
    /\ last.val = <<0, 0, 0, 20544>>

AllDone == \A p \in Procs : pc[p] = "done"

\* C10: when every process has issued its one compare_exchange(expect, plan[p])
\* on a slot that held expect, exactly one returned Ok(expect), every other
\* returned Err(the winner's new word), and the slot holds the winner's new
\* word; and the slot always holds the word it was constructed with or the
\* word last passed to a store or to a successful compare_exchange.
C10_CasExclusivity ==
    /\ slot = wrote.word
    /\ (scene = "race" /\ AllDone) =>
            \E w \in Procs :
                /\ ret[w].ok
                /\ ret[w].val = expect
                /\ slot = plan[w]
                /\ \A q \in Procs \ {w} : ~ret[q].ok /\ ret[q].val = plan[w]

\* a finished race between processes that tried different words
C10_Witness ==
    /\ scene = "race"
    /\ AllDone
    /\ \A p, q \in Procs : p # q => plan[p] # plan[q]
    /\ \E w \in Procs : ret[w].ok /\ slot = plan[w]

====
